---- MODULE Spec2Model ----
(***************************************************************************)
(* State-machine model of the study-group bot (src/bot.py): the four       *)
(* tables of the store, the ConversationHandler that drives the deadline   *)
(* workflow, the handlers registered in main() and the chat they write to. *)
(*                                                                         *)
(* Environment conventions                                                 *)
(*  - Updates are handled one at a time (the Application's default); while *)
(*    deadline_receive_file is suspended at one of its awaits no other     *)
(*    update handler starts.                                               *)
(*  - Each store access and each send/edit call that the code wraps in a   *)
(*    try block may fail; the failure is an input of the action.  The      *)
(*    replies a handler sends to its caller are recorded in `reply` as     *)
(*    sent.                                                                *)
(*  - User ids are abstracted: the eight ids of MEMBERS are 1..8 in list   *)
(*    order, 9 is a user that is not in MEMBERS.                           *)
(***************************************************************************)
EXTENDS Integers, Sequences, FiniteSets, TLC

\* ------------------------------------------------------------- bounds
MaxDeadlines == 2
\* The clock stops at MaxTime seconds.
MaxTime == 2
\* At most MaxSchedules schedules are ever accepted.
MaxSchedules == 2

\* ------------------------------------------------- program constants
\* The conversation state and the two other values a handler of the
\* conversation may return.
WAITING_FOR_FILE == "WAITING_FOR_FILE"
END == "END"
None == "None"

MEMBERS ==
    << <<1, "Vamsee">>, <<2, "Umesh">>, <<3, "Chetan">>, <<4, "Yashwanth">>,
       <<5, "Karthik">>, <<6, "Sanjith">>, <<7, "Raghunandan">>, <<8, "Pavan">> >>

\* ------------------------------------------------------- environment
\* The users that act in the model: a member of MEMBERS and a stranger.
Users == {1, 9}
\* The users who can press the button of a posted message: whoever sees
\* the chat, which is the people of MEMBERS and the stranger.
Pressers == {MEMBERS[i][1] : i \in 1..Len(MEMBERS)} \cup Users
\* Two group chats the bot is in.
Chats == {101, 102}
ChatType(c) == IF c = 101 THEN "supergroup" ELSE "group"
\* What the user's Telegram profile may carry as first_name ("" is absent).
FirstNames(u) == IF u = 1 THEN {"Vam"} ELSE {"Nine", ""}
\* What get_member may answer; "lookup_failed" is the call raising.
Statuses == {"creator", "administrator", "member", "lookup_failed"}
\* The attachment a message carries ("text" is a message without
\* document, photo or video).
Attachments == {"document", "photo", "video", "text"}
\* The file_id of the attachment: an opaque token the handlers pass on.
FileId(att) == "file_id"

Sessions == Chats \X Users
\* A (chat, user) key with no entry in the conversation dict.
IDLE == "Idle"
NoTitle == "<unset>"
DefaultTitle == "Study Material"
NoTally == << >>

VARIABLES
    conv,         \* ConversationHandler._conversations: (chat,user) -> state
    user_data,    \* context.user_data[user]["deadline_title"], or NoTitle
    members,      \* members table: user_id -> first_name
    deadlines,    \* deadlines table: deadline_id (index) -> row
    completions,  \* completions table: bag of (deadline_id, user_id) rows
    artifacts,    \* messages the bot posted with a completion button
    rf,           \* the deadline_receive_file call in progress, if any
    now,          \* wall clock, in seconds
    reply,        \* what the last handler told its caller
    initTitle,    \* history: title typed at the initiation of each session
    schedules,    \* schedules table: schedule_id -> row
    schedule_seq, \* sqlite_sequence of schedules (AUTOINCREMENT)
    jobs,         \* JobQueue: the data of the armed run_once jobs
    sj,           \* the send_scheduled_message call in progress, if any
    outbox,       \* scheduled reminders the bot delivered to a chat
    accepted,     \* history: the schedules accepted, with the roster then
    presses       \* completion_callback calls that are past their SELECT

vars == <<conv, user_data, members, deadlines, completions, artifacts, rf,
          now, reply, initTitle, schedules, schedule_seq, jobs, sj, outbox,
          accepted, presses>>

scheduler == <<schedules, schedule_seq, jobs, sj, outbox, accepted>>

NoCall == [pc |-> "none"]

\* ------------------------------------------------------------ helpers
\* Mutant: a lookup that raises lets the caller through.
is_admin_fail_open(status) ==
    IF status = "lookup_failed" THEN TRUE
    ELSE status \in {"administrator", "creator"}

\* is_admin: the status get_member reported is administrator or creator;
\* a lookup that raises counts as not admin.
is_admin(status) ==
    IF status = "lookup_failed" THEN FALSE
    ELSE status \in {"administrator", "creator"}

\* Mutant: an id that is already a key keeps its first name.
DictSet_keep_first(d, k, v) ==
    IF \E i \in 1..Len(d) : d[i][1] = k THEN d ELSE Append(d, <<k, v>>)

\* dict[k] = v on an insertion-ordered dict kept as a sequence of <<k, v>>.
DictSet(d, k, v) ==
    IF \E i \in 1..Len(d) : d[i][1] = k
    THEN [i \in 1..Len(d) |-> IF d[i][1] = k THEN <<k, v>> ELSE d[i]]
    ELSE Append(d, <<k, v>>)

RECURSIVE DictUpdate(_, _)
DictUpdate(d, pairs) ==
    IF pairs = << >> THEN d
    ELSE DictUpdate(DictSet(d, Head(pairs)[1], Head(pairs)[2]), Tail(pairs))

\* SELECT user_id, first_name FROM members: rows in rowid (= user_id) order.
RECURSIVE SelectMembers(_)
SelectMembers(mem) ==
    IF DOMAIN mem = {} THEN << >>
    ELSE LET k == CHOOSE x \in DOMAIN mem : \A y \in DOMAIN mem : x <= y
         IN  <<  <<k, mem[k]>> >> \o
             SelectMembers([x \in (DOMAIN mem) \ {k} |-> mem[x]])

\* Mutant: a failed read of the table leaves the caller without roster.
get_all_member_ids_or_nothing(mem, readOk) ==
    IF readOk THEN DictUpdate(DictUpdate(<< >>, MEMBERS), SelectMembers(mem))
    ELSE << >>

\* Mutant: the rows of the list come in an order that follows the clock.
get_all_member_ids_unstable(mem, readOk) ==
    LET members_set == DictUpdate(<< >>, MEMBERS)
        l == IF readOk THEN DictUpdate(members_set, SelectMembers(mem))
             ELSE members_set
    IN  IF now % 2 = 1 THEN [i \in 1..Len(l) |-> l[Len(l) + 1 - i]] ELSE l

\* get_all_member_ids: the MEMBERS list overlaid with the members table;
\* readOk = FALSE is the table read raising, which leaves the list alone.
get_all_member_ids(mem, readOk) ==
    LET members_set == DictUpdate(<< >>, MEMBERS)
    IN  IF readOk THEN DictUpdate(members_set, SelectMembers(mem))
        ELSE members_set

\* Mutant: the count of the hardcoded list alone.
get_member_count_seed_only(mem, readOk) == Len(MEMBERS)

get_member_count(mem, readOk) == Len(get_all_member_ids(mem, readOk))

\* " ".join(context.args)
RECURSIVE Join(_)
Join(args) ==
    IF Len(args) = 0 THEN ""
    ELSE IF Len(args) = 1 THEN args[1]
    ELSE args[1] \o " " \o Join(Tail(args))

\* str.lower() on the words the model's callers type.
Lower(w) ==
    IF w = "Remind" THEN "remind"
    ELSE IF w = "Essay" THEN "essay"
    ELSE IF w = "HW" THEN "hw"
    ELSE w

\* What may follow /deadline.
ArgLists ==
    { << >>, <<"status">>, <<"Remind">>, <<"Essay">>, <<"HW", "1">> }

\* ------------------------------------------------------------- store
DeadlineIds == 1..MaxDeadlines
CompletionKeys == DeadlineIds \X Pressers

\* Mutant: the existence check never finds a row.
completion_exists_never(tbl, d, u) == FALSE

\* SELECT * FROM completions WHERE deadline_id = ? AND user_id = ?
completion_exists(tbl, d, u) ==
    <<d, u>> \in DOMAIN tbl /\ tbl[<<d, u>>] > 0

\* PRIMARY KEY (deadline_id, user_id): an INSERT of an existing key raises.
completions_pk_violated(tbl, d, u) == tbl[<<d, u>>] > 0

\* The row INSERT INTO completions adds.
completions_insert(tbl, d, u) == [tbl EXCEPT ![<<d, u>>] = @ + 1]

\* SELECT COUNT(*) FROM completions WHERE deadline_id = ?
RECURSIVE SumOver(_, _)
SumOver(f, S) ==
    IF S = {} THEN 0
    ELSE LET x == CHOOSE y \in S : TRUE IN f[x] + SumOver(f, S \ {x})

completion_count(tbl, d) == SumOver(tbl, {k \in DOMAIN tbl : k[1] = d})

\* Mutant: the row stored with a message id other than the placeholder.
deadlines_insert_with_id(tbl, title, chat, file_id, t) ==
    Append(tbl, [title |-> title, message_id |-> 1, chat_id |-> chat,
                 file_id |-> file_id, created_at |-> t])

\* INSERT INTO deadlines (title, message_id, chat_id, file_id): the row
\* deadline_receive_file stores before posting, message_id still 0.
deadlines_insert(tbl, title, chat, file_id, t) ==
    Append(tbl, [title |-> title, message_id |-> 0, chat_id |-> chat,
                 file_id |-> file_id, created_at |-> t])

\* UPDATE deadlines SET message_id = ? WHERE deadline_id = ?
deadlines_set_message_id(tbl, d, m) ==
    [i \in 1..Len(tbl) |-> IF i = d THEN [tbl[i] EXCEPT !.message_id = m]
                           ELSE tbl[i]]

\* INSERT OR IGNORE INTO members, then UPDATE members SET first_name.
members_upsert(mem, u, name) ==
    [x \in (DOMAIN mem) \cup {u} |-> IF x = u THEN name ELSE mem[x]]

\* ----------------------------------------------------------- updates
CommandUpdate(cmd, args) ==
    [kind |-> "command", cmd |-> cmd, args |-> args, att |-> "text"]
MessageUpdate(att) ==
    [kind |-> "message", cmd |-> "", args |-> << >>, att |-> att]

\* filters.Document.ALL | filters.PHOTO | filters.VIDEO
file_filter(upd) ==
    upd.kind = "message" /\ upd.att \in {"document", "photo", "video"}

\* Mutant: the entry point is tried in every state (allow_reentry).
conv_handler_reentry(cv, c, u, upd) ==
    IF upd.kind = "command" /\ upd.cmd = "deadline"
    THEN "deadline_command"
    ELSE IF cv[<<c, u>>] = IDLE THEN "none"
    ELSE IF file_filter(upd) THEN "deadline_receive_file"
    ELSE IF upd.kind = "command" /\ upd.cmd = "cancel"
         THEN "cancel_deadline" ELSE "none"

\* ConversationHandler.check_update for deadline_conv: with no state for
\* the (chat, user) key only the entry point is tried; in WAITING_FOR_FILE
\* the state's handler, then the fallback; otherwise the update is not
\* the conversation's.
conv_handler(cv, c, u, upd) ==
    IF cv[<<c, u>>] = IDLE
    THEN IF upd.kind = "command" /\ upd.cmd = "deadline"
         THEN "deadline_command" ELSE "none"
    ELSE IF file_filter(upd) THEN "deadline_receive_file"
    ELSE IF upd.kind = "command" /\ upd.cmd = "cancel"
         THEN "cancel_deadline" ELSE "none"

\* The handlers main() registers, all in one group: the first one whose
\* filter accepts the message handles it, the others never see it.
dispatch(cv, c, u, upd) ==
    IF upd.kind = "command" /\ upd.cmd \in {"start", "help"}
    THEN upd.cmd
    ELSE IF upd.kind = "command" /\ upd.cmd \in {"mention", "tagall"}
    THEN "mention_command"
    ELSE IF upd.kind = "command" /\ upd.cmd = "status"
    THEN "status_command"
    ELSE IF upd.kind = "command" /\ upd.cmd = "schedule"
    THEN "schedule_command"
    ELSE IF conv_handler(cv, c, u, upd) # "none"
    THEN conv_handler(cv, c, u, upd)
    ELSE "auto_register_member"

\* ConversationHandler._update_state: END drops the key, None keeps the
\* state, any other value becomes the state.
update_state(cv, c, u, ret) ==
    IF ret = END THEN [cv EXCEPT ![<<c, u>>] = IDLE]
    ELSE IF ret = None THEN cv
    ELSE [cv EXCEPT ![<<c, u>>] = ret]

\* --------------------------------------------------------------- Init
Init ==
    /\ conv = [s \in Sessions |-> IDLE]
    /\ user_data = [u \in Users |-> NoTitle]
    /\ members = [u \in {} |-> ""]
    /\ deadlines = << >>
    /\ completions = [k \in CompletionKeys |-> 0]
    /\ artifacts = << >>
    /\ rf = NoCall
    /\ now = 0
    /\ reply = <<"started">>
    /\ initTitle = [s \in Sessions |-> NoTitle]
    /\ schedules = [i \in {} |-> NoCall]
    /\ schedule_seq = 0
    /\ jobs = {}
    /\ sj = NoCall
    /\ outbox = << >>
    /\ accepted = << >>
    /\ presses = {}

\* ----------------------------------------------------------- handlers
\* start / help_command: a reply, nothing else.
simple_command(c, u, cmd) ==
    /\ rf.pc = "none"
    /\ dispatch(conv, c, u, CommandUpdate(cmd, << >>)) = cmd
    /\ reply' = <<cmd>>
    /\ UNCHANGED <<conv, user_data, members, deadlines, completions,
                   artifacts, rf, now, scheduler, presses, initTitle>>

\* auto_register_member, the last handler: it gets the messages no other
\* handler took.
auto_register_member(c, u, upd, first_name, dbOk) ==
    /\ rf.pc = "none"
    /\ dispatch(conv, c, u, upd) = "auto_register_member"
    /\ IF ChatType(c) \notin {"group", "supergroup"} \/ ~dbOk
       THEN members' = members
       ELSE members' = members_upsert(members, u,
                           IF first_name = "" THEN "User" ELSE first_name)
    /\ reply' = <<"silent">>
    /\ UNCHANGED <<conv, user_data, deadlines, completions, artifacts, rf,
                   now, scheduler, presses, initTitle>>

\* deadline_status: one entry per deadline, newest first; rows of equal
\* created_at come in an order the query does not fix (ord).
deadline_status(ord, dbOk, readOk) ==
    IF ~dbOk THEN <<"error">>
    ELSE IF Len(deadlines) = 0 THEN <<"no_deadlines">>
    ELSE LET total_members == get_member_count(members, readOk)
         IN  <<"deadline_status",
               [i \in 1..Len(ord) |->
                  <<deadlines[ord[i]].title,
                    completion_count(completions, ord[i]),
                    total_members - completion_count(completions, ord[i])>>]>>

\* ORDER BY created_at DESC: the permutations of the deadline ids with
\* created_at not increasing.
created_at_desc ==
    {ord \in [1..Len(deadlines) -> 1..Len(deadlines)] :
        /\ \A i, j \in 1..Len(deadlines) : i # j => ord[i] # ord[j]
        /\ \A i, j \in 1..Len(deadlines) :
              i < j => deadlines[ord[i]].created_at >= deadlines[ord[j]].created_at}

\* get_latest_deadline: ORDER BY created_at DESC LIMIT 1; 0 stands for
\* None (no row, or the read raising).
get_latest_deadline(ord, dbOk) ==
    IF ~dbOk \/ Len(deadlines) = 0 THEN 0 ELSE ord[1]

\* deadline_remind: mention the roster members with no completion row for
\* the latest deadline.
deadline_remind(ord, latestOk, dbOk, readOk) ==
    LET latest == get_latest_deadline(ord, latestOk)
        all_members == get_all_member_ids(members, readOk)
        pending == SelectSeq(all_members,
                       LAMBDA m : ~completion_exists(completions, latest, m[1]))
    IN  IF latest = 0 THEN <<"no_deadlines">>
        ELSE IF ~dbOk THEN <<"error">>
        ELSE IF Len(pending) = 0
             THEN <<"everyone_completed", deadlines[latest].title>>
        ELSE <<"reminder", deadlines[latest].title, pending>>

\* deadline_command, the entry point of the conversation.
deadline_command(c, u, args, status, in) ==
    /\ rf.pc = "none"
    /\ dispatch(conv, c, u, CommandUpdate("deadline", args)) = "deadline_command"
    /\ IF ~is_admin(status)
       THEN /\ reply' = <<"only_admins", "deadline">>
            /\ conv' = update_state(conv, c, u, None)
            /\ UNCHANGED <<user_data, initTitle>>
       ELSE IF Len(args) > 0 /\ Lower(args[1]) = "status"
       THEN /\ reply' = deadline_status(in.ord, in.dbOk, in.readOk)
            /\ conv' = update_state(conv, c, u, None)
            /\ UNCHANGED <<user_data, initTitle>>
       ELSE IF Len(args) > 0 /\ Lower(args[1]) = "remind"
       THEN /\ reply' = deadline_remind(in.ord, in.latestOk, in.dbOk, in.readOk)
            /\ conv' = update_state(conv, c, u, None)
            /\ UNCHANGED <<user_data, initTitle>>
       ELSE IF Len(args) > 0
       THEN /\ user_data' = [user_data EXCEPT ![u] = Join(args)]
            /\ reply' = <<"creating", Join(args)>>
            /\ conv' = update_state(conv, c, u, WAITING_FOR_FILE)
            /\ initTitle' = [initTitle EXCEPT ![<<c, u>>] = Join(args)]
       ELSE /\ reply' = <<"usage", "deadline">>
            /\ conv' = update_state(conv, c, u, END)
            /\ UNCHANGED <<user_data, initTitle>>
    /\ UNCHANGED <<members, deadlines, completions, artifacts, rf, now, scheduler, presses>>

\* Mutant: the cancel handler without its return of END.
cancel_deadline_no_end(c, u) ==
    /\ rf.pc = "none"
    /\ dispatch(conv, c, u, CommandUpdate("cancel", << >>)) = "cancel_deadline"
    /\ user_data' = [user_data EXCEPT ![u] = NoTitle]
    /\ reply' = <<"cancelled">>
    /\ conv' = update_state(conv, c, u, None)
    /\ UNCHANGED <<members, deadlines, completions, artifacts, rf, now, scheduler, presses,
                   initTitle>>

\* cancel_deadline, the fallback of the conversation.
cancel_deadline(c, u) ==
    /\ rf.pc = "none"
    /\ dispatch(conv, c, u, CommandUpdate("cancel", << >>)) = "cancel_deadline"
    /\ user_data' = [user_data EXCEPT ![u] = NoTitle]
    /\ reply' = <<"cancelled">>
    /\ conv' = update_state(conv, c, u, END)
    /\ initTitle' = [initTitle EXCEPT ![<<c, u>>] = NoTitle]
    /\ UNCHANGED <<members, deadlines, completions, artifacts, rf, now, scheduler, presses>>

\* deadline_receive_file up to the INSERT's commit.  The handler is only
\* reached through the WAITING_FOR_FILE state's MessageHandler.
receive_file_insert(c, u, att, dbOk) ==
    /\ rf.pc = "none"
    /\ dispatch(conv, c, u, MessageUpdate(att)) = "deadline_receive_file"
    /\ Len(deadlines) < MaxDeadlines
    /\ LET title == IF user_data[u] = NoTitle THEN DefaultTitle
                    ELSE user_data[u]
       IN  IF att \notin {"document", "photo", "video"}
           THEN /\ reply' = <<"send_valid_file">>
                /\ conv' = update_state(conv, c, u, WAITING_FOR_FILE)
                /\ UNCHANGED <<deadlines, rf, initTitle>>
           ELSE IF dbOk
           THEN /\ deadlines' = deadlines_insert(deadlines, title, c,
                                                 FileId(att), now)
                /\ rf' = [pc |-> "inserted", chat |-> c, user |-> u,
                          att |-> att, title |-> title,
                          deadline_id |-> Len(deadlines) + 1,
                          message_id |-> 0]
                /\ reply' = <<"in_progress">>
                /\ UNCHANGED <<conv, initTitle>>
           ELSE /\ reply' = <<"error_posting">>
                /\ conv' = update_state(conv, c, u, END)
                /\ initTitle' = [initTitle EXCEPT ![<<c, u>>] = NoTitle]
                /\ UNCHANGED <<deadlines, rf>>
    /\ UNCHANGED <<user_data, members, completions, artifacts, now, scheduler, presses>>

\* Mutant: the except branch takes the stored row back.
receive_file_failed_rollback ==
    /\ reply' = <<"error_posting">>
    /\ conv' = update_state(conv, rf.chat, rf.user, END)
    /\ initTitle' = [initTitle EXCEPT ![<<rf.chat, rf.user>>] = NoTitle]
    /\ rf' = NoCall
    /\ deadlines' = SubSeq(deadlines, 1, rf.deadline_id - 1)
    /\ UNCHANGED <<user_data, members, completions, artifacts, now, scheduler, presses>>

\* The except branch of deadline_receive_file: report, end the
\* conversation; the scratch title and the store stay as they are.
receive_file_failed ==
    /\ reply' = <<"error_posting">>
    /\ conv' = update_state(conv, rf.chat, rf.user, END)
    /\ initTitle' = [initTitle EXCEPT ![<<rf.chat, rf.user>>] = NoTitle]
    /\ rf' = NoCall
    /\ UNCHANGED <<user_data, members, deadlines, completions, artifacts, now, scheduler, presses>>

\* send_document / send_photo / send_video with the completion button
\* complete_<deadline_id>; the chat gives the message a non-zero id.
receive_file_post(sendOk) ==
    /\ rf.pc = "inserted"
    /\ IF sendOk
       THEN /\ artifacts' = Append(artifacts,
                  [chat |-> rf.chat, deadline_id |-> rf.deadline_id,
                   title |-> rf.title, tally |-> NoTally])
            /\ rf' = [rf EXCEPT !.pc = "posted",
                                !.message_id = Len(artifacts) + 1]
            /\ UNCHANGED <<conv, user_data, members, deadlines, completions,
                           now, scheduler, presses, reply, initTitle>>
       ELSE receive_file_failed

\* UPDATE deadlines SET message_id = sent_message.message_id
receive_file_patch(dbOk) ==
    /\ rf.pc = "posted"
    /\ IF dbOk
       THEN /\ deadlines' = deadlines_set_message_id(deadlines, rf.deadline_id,
                                                     rf.message_id)
            /\ rf' = [rf EXCEPT !.pc = "patched"]
            /\ UNCHANGED <<conv, user_data, members, completions, artifacts,
                           now, scheduler, presses, reply, initTitle>>
       ELSE receive_file_failed

\* The success reply, the scratch title popped, ConversationHandler.END.
receive_file_finish ==
    /\ rf.pc = "patched"
    /\ reply' = <<"posted">>
    /\ user_data' = [user_data EXCEPT ![rf.user] = NoTitle]
    /\ conv' = update_state(conv, rf.chat, rf.user, END)
    /\ initTitle' = [initTitle EXCEPT ![<<rf.chat, rf.user>>] = NoTitle]
    /\ rf' = NoCall
    /\ UNCHANGED <<members, deadlines, completions, artifacts, now, scheduler, presses>>

\* Mutant: the completion recorded without looking for an earlier row, in
\* a table that has no key.
completion_callback_unchecked(m, u, in) ==
    /\ rf.pc = "none"
    /\ m \in DOMAIN artifacts
    /\ LET deadline_id == artifacts[m].deadline_id
           inserted == completions_insert(completions, deadline_id, u)
           completed_count == completion_count(inserted, deadline_id)
           total_members == get_member_count(members, in.readOk)
       IN  IF ~in.dbOk
           THEN /\ reply' = <<"error_recording">>
                /\ UNCHANGED <<completions, artifacts>>
           ELSE /\ completions' = inserted
                /\ artifacts' =
                     IF in.editOk
                     THEN [artifacts EXCEPT
                             ![m].title = deadlines[deadline_id].title,
                             ![m].tally = <<completed_count, total_members>>]
                     ELSE artifacts
                /\ reply' = <<"marked", completed_count, total_members>>
    /\ UNCHANGED <<conv, user_data, members, deadlines, rf, now, scheduler, presses, initTitle>>

\* completion_callback: the button of posted message m pressed by u.
completion_callback(m, u, in) ==
    /\ rf.pc = "none"
    /\ m \in DOMAIN artifacts
    /\ LET deadline_id == artifacts[m].deadline_id
           inserted == completions_insert(completions, deadline_id, u)
           completed_count == completion_count(inserted, deadline_id)
           total_members == get_member_count(members, in.readOk)
       IN  IF ~in.dbOk
           THEN /\ reply' = <<"error_recording">>
                /\ UNCHANGED <<completions, artifacts>>
           ELSE IF completion_exists(completions, deadline_id, u)
           THEN /\ reply' = <<"already_completed">>
                /\ UNCHANGED <<completions, artifacts>>
           ELSE IF \/ completions_pk_violated(completions, deadline_id, u)
                   \/ deadline_id \notin 1..Len(deadlines)
           THEN /\ reply' = <<"error_recording">>
                /\ UNCHANGED <<completions, artifacts>>
           ELSE /\ completions' = inserted
                /\ artifacts' =
                     IF in.editOk
                     THEN [artifacts EXCEPT
                             ![m].title = deadlines[deadline_id].title,
                             ![m].tally = <<completed_count, total_members>>]
                     ELSE artifacts
                /\ reply' = <<"marked", completed_count, total_members>>
    /\ UNCHANGED <<conv, user_data, members, deadlines, rf, now, scheduler, presses, initTitle>>

\* ---- /mention, /tagall and /status
\* What may follow /mention.
MentionArgs == { << >>, <<"Exam", "tomorrow">> }

\* mention_command: the roster mentioned in a reply to the chat, with the
\* text of the arguments if there is one.
mention_command(c, u, cmd, args, status, readOk) ==
    /\ rf.pc = "none"
    /\ dispatch(conv, c, u, CommandUpdate(cmd, args)) = "mention_command"
    /\ LET roster == get_all_member_ids(members, readOk)
       IN  reply' =
             IF ChatType(c) \notin {"group", "supergroup"}
             THEN <<"only_in_groups">>
             ELSE IF ~is_admin(status) THEN <<"only_admins", "mention">>
             ELSE IF roster = << >> THEN <<"no_members">>
             ELSE <<"mention", Join(args), roster>>
    /\ UNCHANGED <<conv, user_data, members, deadlines, completions, artifacts,
                   rf, now, initTitle, scheduler, presses>>

\* get_deadline_count: SELECT COUNT(*) FROM deadlines, 0 when the read
\* raises.
get_deadline_count(dbOk) == IF dbOk THEN Len(deadlines) ELSE 0

\* status_command: the numbers of members and deadlines and the latest
\* deadline.
status_command(c, u, status, in) ==
    /\ rf.pc = "none"
    /\ dispatch(conv, c, u, CommandUpdate("status", << >>)) = "status_command"
    /\ LET latest == get_latest_deadline(in.ord, in.latestOk)
       IN  reply' =
             IF ~is_admin(status) THEN <<"only_admins", "status">>
             ELSE <<"status", get_member_count(members, in.readOk),
                    get_deadline_count(in.dbOk),
                    IF latest = 0 THEN "None" ELSE deadlines[latest].title>>
    /\ UNCHANGED <<conv, user_data, members, deadlines, completions, artifacts,
                   rf, now, initTitle, scheduler, presses>>

\* ---- completion_callback, statement by statement
\* Two running instances of the bot (an old deployment next to a new one,
\* the case error_handler reports as Conflict) work on the same database
\* file; each handles its updates one at a time.
Instances == {"old", "new"}

\* completion_callback up to its SELECT, in instance inst: the press of
\* the button of message m by u either finds the row and is answered, or
\* goes on to the INSERT.
completion_callback_select(inst, m, u, dbOk) ==
    /\ \A p \in presses : p.inst # inst
    /\ m \in DOMAIN artifacts
    /\ LET deadline_id == artifacts[m].deadline_id
       IN  IF ~dbOk
           THEN /\ reply' = <<"error_recording">>
                /\ UNCHANGED presses
           ELSE IF completion_exists(completions, deadline_id, u)
           THEN /\ reply' = <<"already_completed">>
                /\ UNCHANGED presses
           ELSE /\ presses' = presses \cup
                     {[inst |-> inst, m |-> m, user |-> u,
                       deadline_id |-> deadline_id]}
                /\ UNCHANGED reply
    /\ UNCHANGED <<conv, user_data, members, deadlines, completions, artifacts,
                   rf, now, initTitle, scheduler>>

\* completion_callback from its INSERT on, for the press p that passed the
\* SELECT: an INSERT that raises (the store failing, or the key being
\* there by now) ends in the except branch.
completion_callback_insert(p, in) ==
    /\ p \in presses
    /\ presses' = presses \ {p}
    /\ LET inserted == completions_insert(completions, p.deadline_id, p.user)
           completed_count == completion_count(inserted, p.deadline_id)
           total_members == get_member_count(members, in.readOk)
       IN  IF \/ ~in.dbOk
              \/ completions_pk_violated(completions, p.deadline_id, p.user)
              \/ p.deadline_id \notin 1..Len(deadlines)
           THEN /\ reply' = <<"error_recording">>
                /\ UNCHANGED <<completions, artifacts>>
           ELSE /\ completions' = inserted
                /\ artifacts' =
                     IF in.editOk
                     THEN [artifacts EXCEPT
                             ![p.m].title = deadlines[p.deadline_id].title,
                             ![p.m].tally = <<completed_count, total_members>>]
                     ELSE artifacts
                /\ reply' = <<"marked", completed_count, total_members>>
    /\ UNCHANGED <<conv, user_data, members, deadlines, rf, now, initTitle,
                   scheduler>>

\* ---- the scheduler
\* What datetime.strptime raises on a string that is not a date and time.
ValueError == -1

\* datetime.strptime(f"{date_str} {time_str}", "%Y-%m-%d %H:%M") on the
\* strings the model's callers type: the instant of the clock the string
\* names, ValueError when it does not have the format.
strptime(date_str, time_str) ==
    IF date_str = "2026-02-15" /\ time_str = "09:00" THEN 1
    ELSE IF date_str = "2026-02-15" /\ time_str = "09:01" THEN 2
    ELSE ValueError

\* What may follow /schedule.
ScheduleArgs ==
    { <<"2026-02-15", "09:00">>,
      <<"2026-02-15", "09:00", "Class">>,
      <<"2026-02-15", "09:01", "Class", "today">>,
      <<"tomorrow", "9am", "Class">> }

\* Mutant: a run time equal to the current time is accepted.
not_in_future_lax(scheduled_time, t) == scheduled_time < t

\* scheduled_time <= datetime.now()
not_in_future(scheduled_time, t) == scheduled_time <= t

\* schedule_command: store the schedule and arm its one-time job.
schedule_command(c, u, args, status, dbOk) ==
    /\ rf.pc = "none"
    /\ dispatch(conv, c, u, CommandUpdate("schedule", args)) = "schedule_command"
    /\ IF ~is_admin(status)
       THEN /\ reply' = <<"only_admins", "schedule">>
            /\ UNCHANGED <<schedules, schedule_seq, jobs, accepted>>
       ELSE IF Len(args) < 3
       THEN /\ reply' = <<"usage", "schedule">>
            /\ UNCHANGED <<schedules, schedule_seq, jobs, accepted>>
       ELSE LET message == Join(SubSeq(args, 3, Len(args)))
                scheduled_time == strptime(args[1], args[2])
                schedule_id == schedule_seq + 1
            IN  IF scheduled_time = ValueError
                THEN /\ reply' = <<"invalid_format">>
                     /\ UNCHANGED <<schedules, schedule_seq, jobs, accepted>>
                ELSE IF not_in_future(scheduled_time, now)
                THEN /\ reply' = <<"must_be_future">>
                     /\ UNCHANGED <<schedules, schedule_seq, jobs, accepted>>
                ELSE IF ~dbOk
                THEN /\ reply' = <<"error">>
                     /\ UNCHANGED <<schedules, schedule_seq, jobs, accepted>>
                ELSE /\ schedule_seq < MaxSchedules
                     /\ schedules' =
                          [i \in (DOMAIN schedules) \cup {schedule_id} |->
                             IF i = schedule_id
                             THEN [run_time |-> scheduled_time,
                                   message |-> message, created_at |-> now]
                             ELSE schedules[i]]
                     /\ schedule_seq' = schedule_id
                     /\ jobs' = jobs \cup
                          {[schedule_id |-> schedule_id, message |-> message,
                            chat_id |-> c, when |-> scheduled_time]}
                     /\ accepted' = Append(accepted,
                          [chat |-> c,
                           roster |-> get_all_member_ids(members, TRUE)])
                     /\ reply' = <<"scheduled", args[1], args[2], message>>
    /\ UNCHANGED <<conv, user_data, members, deadlines, completions, artifacts,
                   rf, now, initTitle, sj, outbox, presses>>

\* Mutant: a send that raises takes the stored row with it.
send_scheduled_message_dropping(j, readOk, sendOk) ==
    /\ sj.pc = "none"
    /\ j \in jobs /\ now >= j.when
    /\ jobs' = jobs \ {j}
    /\ IF sendOk
       THEN /\ outbox' = Append(outbox,
                  [chat |-> j.chat_id, schedule_id |-> j.schedule_id,
                   message |-> j.message,
                   mentions |-> get_all_member_ids(members, readOk)])
            /\ sj' = [pc |-> "sent", schedule_id |-> j.schedule_id]
            /\ UNCHANGED schedules
       ELSE /\ schedules' = [i \in (DOMAIN schedules) \ {j.schedule_id} |->
                               schedules[i]]
            /\ UNCHANGED <<outbox, sj>>
    /\ UNCHANGED <<conv, user_data, members, deadlines, completions, artifacts,
                   rf, now, reply, initTitle, schedule_seq,
                   accepted, presses>>

\* Mutant: the job stays armed after it ran.
send_scheduled_message_repeating(j, readOk, sendOk) ==
    /\ sj.pc = "none"
    /\ j \in jobs /\ now >= j.when
    /\ IF sendOk
       THEN /\ outbox' = Append(outbox,
                  [chat |-> j.chat_id, schedule_id |-> j.schedule_id,
                   message |-> j.message,
                   mentions |-> get_all_member_ids(members, readOk)])
            /\ sj' = [pc |-> "sent", schedule_id |-> j.schedule_id]
       ELSE UNCHANGED <<outbox, sj>>
    /\ UNCHANGED <<conv, user_data, members, deadlines, completions, artifacts,
                   rf, now, reply, initTitle, schedules, schedule_seq, jobs,
                   accepted, presses>>

\* Mutant: the mention list is the roster of the time of the request.
send_scheduled_message_stale(j, readOk, sendOk) ==
    /\ sj.pc = "none"
    /\ j \in jobs /\ now >= j.when
    /\ jobs' = jobs \ {j}
    /\ IF sendOk
       THEN /\ outbox' = Append(outbox,
                  [chat |-> j.chat_id, schedule_id |-> j.schedule_id,
                   message |-> j.message,
                   mentions |-> accepted[j.schedule_id].roster])
            /\ sj' = [pc |-> "sent", schedule_id |-> j.schedule_id]
       ELSE UNCHANGED <<outbox, sj>>
    /\ UNCHANGED <<conv, user_data, members, deadlines, completions, artifacts,
                   rf, now, reply, initTitle, schedules, schedule_seq,
                   accepted, presses>>

\* send_scheduled_message up to its send: the run_once job j fires when
\* its time has come and is gone from the queue; the mention list is read
\* and the message sent to the chat of the job data.  A send that raises
\* ends the callback.
send_scheduled_message(j, readOk, sendOk) ==
    /\ sj.pc = "none"
    /\ j \in jobs /\ now >= j.when
    /\ jobs' = jobs \ {j}
    /\ IF sendOk
       THEN /\ outbox' = Append(outbox,
                  [chat |-> j.chat_id, schedule_id |-> j.schedule_id,
                   message |-> j.message,
                   mentions |-> get_all_member_ids(members, readOk)])
            /\ sj' = [pc |-> "sent", schedule_id |-> j.schedule_id]
       ELSE UNCHANGED <<outbox, sj>>
    /\ UNCHANGED <<conv, user_data, members, deadlines, completions, artifacts,
                   rf, now, reply, initTitle, schedules, schedule_seq,
                   accepted, presses>>

\* DELETE FROM schedules WHERE schedule_id = ?, the end of the callback.
send_scheduled_delete(dbOk) ==
    /\ sj.pc = "sent"
    /\ schedules' =
         IF dbOk
         THEN [i \in (DOMAIN schedules) \ {sj.schedule_id} |-> schedules[i]]
         ELSE schedules
    /\ sj' = NoCall
    /\ UNCHANGED <<conv, user_data, members, deadlines, completions, artifacts,
                   rf, now, reply, initTitle, schedule_seq, jobs, outbox,
                   accepted, presses>>

\* Mutant: the restore path arms a job for every stored schedule.
restart_rearming ==
    /\ conv' = [s \in Sessions |-> IDLE]
    /\ user_data' = [u \in Users |-> NoTitle]
    /\ initTitle' = [s \in Sessions |-> NoTitle]
    /\ rf' = NoCall /\ sj' = NoCall /\ presses' = {}
    /\ jobs' = {[schedule_id |-> i, message |-> schedules[i].message,
                 chat_id |-> 101, when |-> schedules[i].run_time] :
                    i \in DOMAIN schedules}
    /\ reply' = <<"started">>
    /\ UNCHANGED <<members, deadlines, completions, artifacts, now, schedules,
                   schedule_seq, outbox, accepted>>

\* The process stops and main() runs again: the conversations, user_data,
\* the job queue and the calls in progress are gone, the database file and
\* the chats are as they were.  init_database creates nothing new and
\* restore_scheduled_jobs reads the pending schedules and logs them.
restart ==
    /\ conv' = [s \in Sessions |-> IDLE]
    /\ user_data' = [u \in Users |-> NoTitle]
    /\ initTitle' = [s \in Sessions |-> NoTitle]
    /\ rf' = NoCall /\ sj' = NoCall /\ presses' = {}
    /\ jobs' = {}
    /\ reply' = <<"started">>
    /\ UNCHANGED <<members, deadlines, completions, artifacts, now, schedules,
                   schedule_seq, outbox, accepted>>

\* The clock advances by one instant: rows stored in the same instant get
\* the same CURRENT_TIMESTAMP.
Tick ==
    /\ now < MaxTime
    /\ now' = now + 1
    /\ UNCHANGED <<conv, user_data, members, deadlines, completions, artifacts,
                   rf, reply, initTitle, scheduler, presses>>

\* --------------------------------------------------------------- Next
\* The messages that can reach the conversation or the last handler.
Updates ==
    {CommandUpdate("deadline", a) : a \in ArgLists}
        \cup {CommandUpdate("cancel", << >>)}
        \cup {MessageUpdate(a) : a \in Attachments}

\* What the store and the query planner may do to a /deadline request
\* that reads the store (status, remind); one fixed value otherwise.  A
\* fault that the request does not get to is not enumerated.
NoFault == [ord |-> << >>, latestOk |-> TRUE, dbOk |-> TRUE, readOk |-> TRUE]
QueryInputs(args, status) ==
    IF ~is_admin(status) \/ Len(args) = 0 THEN {NoFault}
    ELSE IF Lower(args[1]) = "status"
    THEN {[NoFault EXCEPT !.dbOk = FALSE]} \cup
         [ord : created_at_desc, latestOk : {TRUE}, dbOk : {TRUE},
          readOk : BOOLEAN]
    ELSE IF Lower(args[1]) = "remind"
    THEN {[NoFault EXCEPT !.latestOk = FALSE]} \cup
         [ord : created_at_desc, latestOk : {TRUE}, dbOk : {FALSE},
          readOk : {TRUE}] \cup
         [ord : created_at_desc, latestOk : {TRUE}, dbOk : {TRUE},
          readOk : BOOLEAN]
    ELSE {NoFault}

\* What the store and the chat may do to a press of the button of
\* message m by u: the store failing, and for a new completion the roster
\* read and the caption edit failing or not.
CompletionInputs(m, u) ==
    {[dbOk |-> FALSE, readOk |-> TRUE, editOk |-> TRUE]} \cup
    (IF completion_exists(completions, artifacts[m].deadline_id, u)
     THEN {[dbOk |-> TRUE, readOk |-> TRUE, editOk |-> TRUE]}
     ELSE [dbOk : {TRUE}, readOk : BOOLEAN, editOk : BOOLEAN])

\* /deadline, /cancel and attachments from the callers US in the chats CS,
\* and the next step of the file receipt in progress; FS is what the store
\* and the chat may answer to the file receipt (TRUE: the call succeeds).
SessionStep(CS, US, AS, SS, FS) ==
    \/ \E c \in CS, u \in US, args \in AS, status \in SS :
          \E in \in QueryInputs(args, status) :
             deadline_command(c, u, args, status, in)
    \/ \E c \in CS, u \in US : cancel_deadline(c, u)
    \/ \E c \in CS, u \in US, att \in Attachments, dbOk \in FS :
          receive_file_insert(c, u, att, dbOk)
    \/ \E sendOk \in FS : receive_file_post(sendOk)
    \/ \E dbOk \in FS : receive_file_patch(dbOk)
    \/ receive_file_finish

\* The updates of u in c that reach the last handler.
Unhandled(c, u) ==
    {upd \in Updates : dispatch(conv, c, u, upd) = "auto_register_member"}

\* A message of a user of US in a chat of CS that no other handler takes.
\* auto_register_member does not look at what the message carries, so one
\* such update stands for all of them.
MessageStep(CS, US) ==
    \E c \in CS, u \in US, dbOk \in BOOLEAN :
       \E first_name \in FirstNames(u) :
          /\ Unhandled(c, u) # {}
          /\ auto_register_member(c, u, CHOOSE upd \in Unhandled(c, u) : TRUE,
                                  first_name, dbOk)

\* The set of faults a press of a button may meet.
AllCompletionInputs == [dbOk : BOOLEAN, readOk : BOOLEAN, editOk : BOOLEAN]

\* The button of a posted message pressed by a user of US.
LedgerStep(US) ==
    \E m \in DOMAIN artifacts, u \in US :
       \E in \in CompletionInputs(m, u) : completion_callback(m, u, in)

\* /start and /help.
CommandStep(CS, US) ==
    \E c \in CS, u \in US, cmd \in {"start", "help"} :
       simple_command(c, u, cmd)

\* One chat: user 1 at the deadline workflow with every privilege answer
\* and every call free to fail, both users talking.
Next ==
    \/ SessionStep({101}, {1}, ArgLists, Statuses, BOOLEAN)
    \/ MessageStep({101}, Users)
    \/ CommandStep({101}, {1})

Spec == Init /\ [][Next]_vars

\* One admin at work in two chats, every call succeeding.
NextChats ==
    SessionStep(Chats, {1}, {<<"Essay">>, <<"HW", "1">>}, {"administrator"},
                {TRUE})

SpecChats == Init /\ [][NextChats]_vars

\* One admin posting deadlines in one chat, a stranger talking there, and
\* both pressing the buttons.
NextLedger ==
    \/ SessionStep({101}, {1}, {<<"Essay">>}, {"administrator"}, {TRUE})
    \/ MessageStep({101}, {9})
    \/ LedgerStep(Users)

SpecLedger == Init /\ [][NextLedger]_vars

\* One admin posting deadlines and asking for status and reminders while
\* the clock runs and the button is pressed; every call succeeds.
NextClock ==
    \/ SessionStep({101}, {1},
                   {<<"Essay">>, <<"HW", "1">>, <<"status">>, <<"Remind">>},
                   {"administrator"}, {TRUE})
    \/ LedgerStep({1})
    \/ Tick

SpecClock == Init /\ [][NextClock]_vars

\* The button of a posted message pressed by a user of US, the press
\* reaching both instances.
RaceStep(US) ==
    \/ \E inst \in Instances, m \in DOMAIN artifacts, u \in US,
          dbOk \in BOOLEAN : completion_callback_select(inst, m, u, dbOk)
    \/ \E p \in presses, in \in AllCompletionInputs :
          completion_callback_insert(p, in)

\* One admin posting deadlines, the buttons pressed by both users with two
\* instances of the bot running.
NextRace ==
    \/ SessionStep({101}, {1}, {<<"Essay">>}, {"administrator"}, {TRUE})
    \/ RaceStep(Users)

SpecRace == Init /\ [][NextRace]_vars

\* /mention, /tagall and /status from the callers US in the chats CS with
\* the privilege answers SS; the store answers.
RosterStep(CS, US, SS) ==
    \/ \E c \in CS, u \in US, cmd \in {"mention", "tagall"},
          args \in MentionArgs, status \in SS :
          mention_command(c, u, cmd, args, status, TRUE)
    \/ \E c \in CS, u \in US, status \in SS, ord \in created_at_desc :
          status_command(c, u, status, [NoFault EXCEPT !.ord = ord])

\* One chat: user 1, admin or not, at the deadline workflow and at
\* /mention and /status, both users talking and asking for help.
NextRoster ==
    \/ SessionStep({101}, {1}, {<<"Essay">>, <<"HW", "1">>, <<"Remind">>},
                   {"administrator", "member"}, BOOLEAN)
    \/ RosterStep({101}, {1}, {"administrator", "member"})
    \/ MessageStep({101}, Users)
    \/ CommandStep({101}, Users)

SpecRoster == Init /\ [][NextRoster]_vars

\* /mention and /status of an admin of US in the chats CS; RS is what the
\* read of the members table may answer (TRUE: it succeeds).
RosterReadStep(CS, US, RS) ==
    \/ \E c \in CS, u \in US, args \in MentionArgs, readOk \in RS :
          mention_command(c, u, "mention", args, "administrator", readOk)
    \/ \E c \in CS, u \in US, ord \in created_at_desc, readOk \in RS :
          status_command(c, u, "administrator",
                         [NoFault EXCEPT !.ord = ord, !.readOk = readOk])

\* Every consumer of the roster at work in one chat with the read of the
\* members table free to fail: an admin posting deadlines, pressing the
\* button, asking for status, reminders and mentions and scheduling one
\* reminder, a stranger registering with a text message.
NextDegraded ==
    \/ SessionStep({101}, {1}, {<<"Essay">>, <<"status">>, <<"Remind">>},
                   {"administrator"}, {TRUE})
    \/ \E m \in DOMAIN artifacts, readOk \in BOOLEAN :
          completion_callback(m, 1, [dbOk |-> TRUE, readOk |-> readOk,
                                     editOk |-> TRUE])
    \/ RosterReadStep({101}, {1}, BOOLEAN)
    \/ auto_register_member(101, 9, MessageUpdate("text"), "Nine", TRUE)
    \/ /\ schedule_seq = 0
       /\ schedule_command(101, 1, <<"2026-02-15", "09:00", "Class">>,
                           "administrator", TRUE)
    \/ \E j \in jobs, readOk \in BOOLEAN :
          send_scheduled_message(j, readOk, TRUE)
    \/ send_scheduled_delete(TRUE)
    \/ Tick

SpecDegraded == Init /\ [][NextDegraded]_vars

\* /schedule from user 1 in the chats CS with the privilege answers SS, the
\* jobs of the queue firing, and the process restarting; FS is what the
\* store and the chat may answer (TRUE: the call succeeds).
ScheduleStep(CS, SS, FS) ==
    \/ \E c \in CS, args \in ScheduleArgs, status \in SS, dbOk \in FS :
          schedule_command(c, 1, args, status, dbOk)
    \/ \E j \in jobs, readOk \in FS, sendOk \in FS :
          send_scheduled_message(j, readOk, sendOk)
    \/ \E dbOk \in FS : send_scheduled_delete(dbOk)
    \/ restart

\* User 1, admin or not, scheduling reminders in both chats while the
\* clock runs and the process may restart; every call is free to fail.
NextSchedule ==
    \/ ScheduleStep(Chats, {"administrator", "member"}, BOOLEAN)
    \/ Tick

SpecSchedule == Init /\ [][NextSchedule]_vars

\* An admin scheduling reminders in the second chat while a stranger talks
\* in the first.
NextMentions ==
    \/ ScheduleStep({102}, {"administrator"}, BOOLEAN)
    \/ MessageStep({101}, {9})
    \/ Tick

SpecMentions == Init /\ [][NextMentions]_vars

\* One process that keeps running: an admin scheduling reminders in both
\* chats, the jobs firing as the clock runs, the store and the send free
\* to fail.
NextDelivery ==
    \/ \E c \in Chats, args \in ScheduleArgs, dbOk \in BOOLEAN :
          schedule_command(c, 1, args, "administrator", dbOk)
    \/ \E j \in jobs, sendOk \in BOOLEAN :
          send_scheduled_message(j, TRUE, sendOk)
    \/ \E dbOk \in BOOLEAN : send_scheduled_delete(dbOk)
    \/ Tick
SpecDelivery == Init /\ [][NextDelivery]_vars

\* The button of a posted message pressed by the people of the chat one
\* after the other, in the order of their ids, nothing failing.
CrowdStep ==
    \E m \in DOMAIN artifacts, u \in Pressers :
       /\ \A v \in Pressers :
             v < u => completion_exists(completions,
                                        artifacts[m].deadline_id, v)
       /\ completion_callback(m, u, [dbOk |-> TRUE, readOk |-> TRUE,
                                     editOk |-> TRUE])

\* A whole class at the button: an admin posting deadlines and asking for
\* their status, everyone in the chat marking them completed.
NextCrowd ==
    \/ SessionStep({101}, {1}, {<<"Essay">>, <<"status">>},
                   {"administrator"}, {TRUE})
    \/ CrowdStep
SpecCrowd == Init /\ [][NextCrowd]_vars

\* The roster resolved while the table and the clock change: an admin
\* posting deadlines and asking for status, reminders and mentions, the
\* read of the members table free to fail, a stranger registering with a
\* text message under either name.
NextResolve ==
    \/ SessionStep({101}, {1}, {<<"Essay">>, <<"status">>, <<"Remind">>},
                   {"administrator"}, {TRUE})
    \/ RosterReadStep({101}, {1}, BOOLEAN)
    \/ \E first_name \in FirstNames(9) :
          auto_register_member(101, 9, MessageUpdate("text"), first_name, TRUE)
    \/ Tick
SpecResolve == Init /\ [][NextResolve]_vars

\* ======================================================= the claims
SeedIds == {MEMBERS[i][1] : i \in 1..Len(MEMBERS)}

\* The users with a Completion row for deadline d.
Completers(tbl, d) == {u \in Users : tbl[<<d, u>>] > 0}

\* C1: whatever completion signals were handled, the completions table
\* holds at most one row per (deadline id, user id), so the stored count of
\* a deadline is the number of distinct users who signalled: repeating a
\* signal adds nothing.
C1_AtMostOneCompletionPerKey ==
    /\ \A k \in DOMAIN completions : completions[k] <= 1
    /\ \A d \in DeadlineIds :
          completion_count(completions, d)
             = Cardinality(Completers(completions, d))

\* C1 witness: a user with a row has just repeated the signal.
C1_Witness ==
    /\ reply = <<"already_completed">>
    /\ \E d \in DeadlineIds : Cardinality(Completers(completions, d)) = 2

\* C2: a signal that inserts a row reports completed/total with completed
\* the number of distinct users holding a row for that deadline (the new
\* one included) and total the number of distinct ids of the roster as
\* resolved at that moment (the seed ids and the ids of the members table;
\* the seed ids alone when the table cannot be read); the alert always
\* carries it and the caption of the pressed message carries it when the
\* edit goes through.
C2_TallyFresh ==
    [][\A m \in DOMAIN artifacts, u \in Users, in \in AllCompletionInputs :
          (/\ completion_callback(m, u, in)
           /\ in.dbOk
           /\ completions[<<artifacts[m].deadline_id, u>>] = 0)
          => LET d == artifacts[m].deadline_id
                 completed == Cardinality(Completers(completions', d))
                 total == Cardinality(SeedIds \cup
                             (IF in.readOk THEN DOMAIN members ELSE {}))
             IN  /\ completions'[<<d, u>>] = 1
                 /\ reply' = <<"marked", completed, total>>
                 /\ in.editOk => artifacts'[m].tally = <<completed, total>>
                 /\ ~in.editOk => artifacts' = artifacts]_vars

\* C2 witness: the second completer's tally counts the stranger who
\* registered after the first tally was written.
C2_Witness ==
    /\ reply = <<"marked", 2, 9>>
    /\ \E m \in DOMAIN artifacts : artifacts[m].tally = <<2, 9>>
    /\ 9 \in DOMAIN members

\* C3: a signal from a user who already has a row for the deadline leaves
\* the completions table, the deadlines table and every posted caption as
\* they were, and answers "already completed" (an error when the store
\* fails).
C3_RepeatChangesNothing ==
    [][\A m \in DOMAIN artifacts, u \in Users, in \in AllCompletionInputs :
          (/\ completion_callback(m, u, in)
           /\ completions[<<artifacts[m].deadline_id, u>>] > 0)
          => /\ UNCHANGED <<completions, deadlines, artifacts, members>>
             /\ reply' = IF in.dbOk THEN <<"already_completed">>
                         ELSE <<"error_recording">>]_vars

\* C3 witness: the repeated signal answered, the tally on display still the
\* one of the first signal.
C3_Witness ==
    /\ reply = <<"already_completed">>
    /\ \E m \in DOMAIN artifacts :
          /\ artifacts[m].tally # NoTally
          /\ artifacts[m].tally[1]
                = Cardinality(Completers(completions, artifacts[m].deadline_id))

\* ---- the deadline workflow
FileKinds == {"document", "photo", "video"}
AllUpdates == Updates \cup {CommandUpdate(x, << >>) : x \in {"start", "help"}}

\* The step in which update upd of user u in chat c is handled (for an
\* attachment taken by the workflow: its first step).
Handled(c, u, upd) ==
    \/ \E first_name \in FirstNames(u), dbOk \in BOOLEAN :
          auto_register_member(c, u, upd, first_name, dbOk)
    \/ /\ upd.kind = "command" /\ upd.cmd = "deadline"
       /\ \E status \in Statuses : \E in \in QueryInputs(upd.args, status) :
             deadline_command(c, u, upd.args, status, in)
    \/ /\ upd.kind = "command" /\ upd.cmd = "cancel"
       /\ cancel_deadline(c, u)
    \/ /\ upd.kind = "command" /\ upd.cmd \in {"start", "help"}
       /\ simple_command(c, u, upd.cmd)
    \/ /\ upd.kind = "message"
       /\ \E dbOk \in BOOLEAN : receive_file_insert(c, u, upd.att, dbOk)

Delivered(d) == \E m \in DOMAIN artifacts : artifacts[m].deadline_id = d

C4_Inv ==
    /\ \A d \in 1..Len(deadlines) :
          deadlines[d].message_id # 0 =>
             /\ deadlines[d].message_id \in DOMAIN artifacts
             /\ artifacts[deadlines[d].message_id].deadline_id = d
             /\ artifacts[deadlines[d].message_id].chat = deadlines[d].chat_id
    /\ rf.pc = "inserted" =>
          /\ deadlines[rf.deadline_id].message_id = 0
          /\ ~Delivered(rf.deadline_id)
          /\ conv[<<rf.chat, rf.user>>] = WAITING_FOR_FILE
    /\ rf.pc = "posted" =>
          /\ deadlines[rf.deadline_id].message_id = 0
          /\ rf.message_id # 0
          /\ artifacts[rf.message_id].deadline_id = rf.deadline_id
          /\ conv[<<rf.chat, rf.user>>] = WAITING_FOR_FILE
    /\ rf.pc = "patched" =>
          /\ deadlines[rf.deadline_id].message_id = rf.message_id
          /\ conv[<<rf.chat, rf.user>>] = WAITING_FOR_FILE

C4_Step ==
    /\ Len(deadlines') > Len(deadlines) =>
          /\ rf.pc = "none" /\ rf'.pc = "inserted"
          /\ rf'.deadline_id = Len(deadlines')
          /\ deadlines'[Len(deadlines')].message_id = 0
          /\ artifacts' = artifacts
    /\ Len(artifacts') > Len(artifacts) =>
          /\ rf.pc = "inserted" /\ rf'.pc = "posted"
          /\ deadlines' = deadlines
          /\ artifacts'[Len(artifacts')].deadline_id = rf.deadline_id
    /\ \A d \in 1..Len(deadlines) :
          deadlines'[d].message_id # deadlines[d].message_id =>
             /\ rf.pc = "posted" /\ rf'.pc = "patched" /\ rf.deadline_id = d
             /\ deadlines'[d].message_id = rf.message_id
    /\ (rf.pc # "none" /\ rf'.pc = "none" /\ reply' = <<"posted">>) =>
          rf.pc = "patched"
    /\ rf.pc = "patched" =>
          rf'.pc = "none" /\ reply' = <<"posted">>
             /\ conv'[<<rf.chat, rf.user>>] = IDLE
             /\ user_data'[rf.user] = NoTitle

\* C4: a valid attachment in AwaitingFile first stores the Deadline row
\* with message id 0, then posts the artifact with the button of that
\* deadline id, then patches the row with the id of the posted message,
\* then ends the session with the scratch title cleared; so a row has a
\* non-zero message id only if its artifact has been delivered.
C4_InsertPostPatchFinish == []C4_Inv /\ [][C4_Step]_vars

\* C4 witness: a file receipt ran to its end.
C4_Witness ==
    /\ reply = <<"posted">> /\ rf.pc = "none"
    /\ \E d \in 1..Len(deadlines) :
          deadlines[d].message_id # 0 /\ Delivered(d)
    /\ conv[<<101, 1>>] = IDLE /\ user_data[1] = NoTitle

\* C5: when posting or patching fails after the row was stored, the
\* session ends, the caller gets the error, the row stays as stored (message
\* id 0), and no later step ever touches that row or posts its artifact.
C5_OrphanKept ==
    [][/\ (rf.pc \in {"inserted", "posted"} /\ rf'.pc = "none") =>
             /\ conv'[<<rf.chat, rf.user>>] = IDLE
             /\ reply' = <<"error_posting">>
             /\ deadlines' = deadlines
             /\ deadlines'[rf.deadline_id].message_id = 0
       /\ \A d \in 1..Len(deadlines) :
             (deadlines[d].message_id = 0
                 /\ ~(rf.pc # "none" /\ rf.deadline_id = d)) =>
                /\ Len(deadlines') >= d /\ deadlines'[d] = deadlines[d]
                /\ \A m \in DOMAIN artifacts' :
                      artifacts'[m].deadline_id = d => m \in DOMAIN artifacts
      ]_vars

\* C5 witness: the post failed (a row with message id 0 and no artifact)
\* and the session is back in Idle.
C5_Witness ==
    /\ reply = <<"error_posting">> /\ rf.pc = "none"
    /\ conv[<<101, 1>>] = IDLE
    /\ \E d \in 1..Len(deadlines) :
          deadlines[d].message_id = 0 /\ ~Delivered(d)
    /\ \E d \in 1..Len(deadlines) :
          deadlines[d].message_id = 0 /\ Delivered(d)

\* C6 as claimed: in AwaitingFile, any message of the session that carries
\* no document, photo or video leaves the session in AwaitingFile and
\* creates no Deadline row.
C6_AnyNonFileKeepsAwaiting ==
    [][\A c \in Chats, u \in Users, upd \in AllUpdates :
          (/\ conv[<<c, u>>] = WAITING_FOR_FILE
           /\ ~file_filter(upd)
           /\ Handled(c, u, upd))
          => /\ conv'[<<c, u>>] = WAITING_FOR_FILE
             /\ deadlines' = deadlines]_vars

\* C6 amended: in AwaitingFile, any message of the session that carries no
\* document, photo or video, other than the /cancel command, leaves the
\* session in AwaitingFile with its title and creates no Deadline row; an
\* attachment sent afterwards is still taken by deadline_receive_file,
\* which stores the Deadline row (and posts it, C4) unless the store fails.
C6_NonFileKeepsAwaiting ==
    [][\A c \in Chats, u \in Users :
          /\ \A upd \in AllUpdates :
                (/\ conv[<<c, u>>] = WAITING_FOR_FILE
                 /\ ~file_filter(upd)
                 /\ ~(upd.kind = "command" /\ upd.cmd = "cancel")
                 /\ Handled(c, u, upd))
                => /\ conv'[<<c, u>>] = WAITING_FOR_FILE
                   /\ deadlines' = deadlines
                   /\ user_data'[u] = user_data[u]
                   /\ rf' = rf
                   /\ \A att \in FileKinds :
                         dispatch(conv', c, u, MessageUpdate(att))
                            = "deadline_receive_file"
          /\ \A att \in FileKinds :
                (/\ conv[<<c, u>>] = WAITING_FOR_FILE
                 /\ receive_file_insert(c, u, att, TRUE))
                => /\ Len(deadlines') = Len(deadlines) + 1
                   /\ deadlines'[Len(deadlines')].chat_id = c
                   /\ rf'.pc = "inserted"]_vars

\* C6 witness: the session is awaiting its file and a message without one
\* has just gone by.
C6_Witness ==
    /\ conv[<<101, 1>>] = WAITING_FOR_FILE
    /\ reply = <<"silent">>
    /\ user_data[1] = "Essay"
    /\ deadlines = << >>

\* C7 as claimed: in AwaitingFile, a message of the session that is not a
\* document, photo or video is answered with the retry prompt.
C7_NonFileGetsRetryPrompt ==
    [][\A c \in Chats, u \in Users :
          (/\ conv[<<c, u>>] = WAITING_FOR_FILE
           /\ Handled(c, u, MessageUpdate("text")))
          => reply' = <<"send_valid_file">>]_vars

\* C8: /deadline from a caller whose status is not administrator/creator,
\* or whose lookup fails, changes neither the conversation state nor the
\* scratch title nor the deadlines table; the caller is told so.
C8_NonAdminRejected ==
    [][\A c \in Chats, u \in Users, args \in ArgLists :
          \A status \in Statuses \ {"administrator", "creator"} :
             \A in \in QueryInputs(args, status) \cup {NoFault} :
                deadline_command(c, u, args, status, in)
                => /\ UNCHANGED <<conv, user_data, deadlines, rf>>
                   /\ reply' = <<"only_admins", "deadline">>]_vars

\* C8 witness: a non-admin's /deadline has been turned down.
C8_Witness ==
    /\ reply = <<"only_admins", "deadline">>
    /\ \A s \in Sessions : conv[s] = IDLE
    /\ user_data[1] = NoTitle

\* C9: /cancel in AwaitingFile clears the scratch title, returns the
\* session to Idle and creates no Deadline row; in Idle an attachment of
\* the session creates nothing, and only a /deadline <title> of an admin
\* takes a session from Idle to AwaitingFile.
C9_CancelEndsSession ==
    [][\A c \in Chats, u \in Users :
          /\ (conv[<<c, u>>] = WAITING_FOR_FILE /\ cancel_deadline(c, u))
             => /\ user_data'[u] = NoTitle
                /\ conv'[<<c, u>>] = IDLE
                /\ deadlines' = deadlines
                /\ rf' = rf
          /\ \A att \in FileKinds :
                (conv[<<c, u>>] = IDLE /\ Handled(c, u, MessageUpdate(att)))
                => /\ deadlines' = deadlines
                   /\ rf' = rf
                   /\ conv'[<<c, u>>] = IDLE
          /\ (conv[<<c, u>>] = IDLE /\ conv'[<<c, u>>] = WAITING_FOR_FILE)
             => \E args \in ArgLists, status \in {"administrator", "creator"} :
                   /\ Len(args) > 0
                   /\ Lower(args[1]) \notin {"status", "remind"}
                   /\ deadline_command(c, u, args, status, NoFault)]_vars

\* C9 witness: a session was cancelled.
C9_Witness ==
    /\ reply = <<"cancelled">>
    /\ conv[<<101, 1>>] = IDLE
    /\ user_data[1] = NoTitle
    /\ initTitle[<<101, 1>>] = NoTitle

\* C10 as claimed: the Deadline row a file receipt stores carries the title
\* typed at the initiation of the same (chat, user) session.
C10_TitleOfOwnSession ==
    rf.pc = "inserted" =>
       deadlines[rf.deadline_id].title = initTitle[<<rf.chat, rf.user>>]

\* ---- status and reminders
\* Deadline ids are handed out in creation order (AUTOINCREMENT), so the
\* most recently created deadline is the one with the highest id.
NewestFirst == [i \in 1..Len(deadlines) |-> Len(deadlines) + 1 - i]

\* The roster members without a Completion row for deadline d.
Pending(roster, d) ==
    SelectSeq(roster, LAMBDA m : m[1] \notin Completers(completions, d))

\* C11 as claimed: /deadline remind of an admin (the store answering)
\* targets the most recently created deadline and mentions exactly the
\* roster members without a Completion row for it; when there is none it
\* reports full completion and mentions nobody.
C11_RemindTargetsLatest ==
    [][\A c \in Chats, u \in Users, ord \in created_at_desc,
          readOk \in BOOLEAN :
          (/\ Len(deadlines) > 0
           /\ deadline_command(c, u, <<"Remind">>, "administrator",
                  [ord |-> ord, latestOk |-> TRUE, dbOk |-> TRUE,
                   readOk |-> readOk]))
          => LET latest == Len(deadlines)
                 pending == Pending(get_all_member_ids(members, readOk), latest)
             IN  reply' = IF pending = << >>
                          THEN <<"everyone_completed", deadlines[latest].title>>
                          ELSE <<"reminder", deadlines[latest].title, pending>>
      ]_vars

\* C12 as claimed: /deadline status of an admin (the store answering)
\* reports one entry per Deadline row, each (title, number of Completion
\* rows, roster size minus that number), most recently created first.
C12_StatusNewestFirst ==
    [][\A c \in Chats, u \in Users, ord \in created_at_desc,
          readOk \in BOOLEAN :
          (/\ Len(deadlines) > 0
           /\ deadline_command(c, u, <<"status">>, "administrator",
                  [ord |-> ord, latestOk |-> TRUE, dbOk |-> TRUE,
                   readOk |-> readOk]))
          => LET total == Len(get_all_member_ids(members, readOk))
                 n(d) == Cardinality(Completers(completions, d))
             IN  reply' = <<"deadline_status",
                            [i \in 1..Len(deadlines) |->
                               <<deadlines[NewestFirst[i]].title,
                                 n(NewestFirst[i]),
                                 total - n(NewestFirst[i])>>]>>
      ]_vars

\* ---- scheduled reminders
\* The deliveries of schedule s in the outbox ob.
Deliveries(ob, s) == {i \in DOMAIN ob : ob[i].schedule_id = s}

\* The user ids of a list of (id, name) pairs.
IdsOf(pairs) == {pairs[i][1] : i \in DOMAIN pairs}

\* The request is one schedule_command turns down at time t.
Rejected(args, t) ==
    \/ Len(args) < 3
    \/ strptime(args[1], args[2]) = ValueError
    \/ strptime(args[1], args[2]) <= t

C13_Inv ==
    \A s \in 1..schedule_seq :
       /\ Cardinality(Deliveries(outbox, s)) <= 1
       /\ s \notin DOMAIN schedules => Deliveries(outbox, s) # {}

C13_Step ==
    /\ \A s \in DOMAIN schedules :
          s \notin DOMAIN schedules' =>
             /\ sj.pc = "sent" /\ sj.schedule_id = s
             /\ Deliveries(outbox, s) # {}
             /\ outbox' = outbox
             /\ DOMAIN schedules' = (DOMAIN schedules) \ {s}
    /\ Len(outbox') > Len(outbox) =>
          /\ schedules' = schedules
          /\ Len(outbox') = Len(outbox) + 1
          /\ LET m == outbox'[Len(outbox')]
             IN  /\ m.schedule_id \in DOMAIN schedules
                 /\ now >= schedules[m.schedule_id].run_time
                 /\ sj'.pc = "sent" /\ sj'.schedule_id = m.schedule_id
    /\ (sj.pc = "sent" /\ send_scheduled_delete(TRUE)) =>
          sj.schedule_id \notin DOMAIN schedules'

\* C13: an accepted schedule is delivered at most once, not before its
\* run time; its record leaves the schedules table only in the step of
\* the callback that follows its delivery (and does leave it then, when
\* the DELETE goes through), the delivery itself leaving the table alone;
\* no other step removes a record.
C13_DeliveredOnceThenRemoved == []C13_Inv /\ [][C13_Step]_vars

\* C13 witness: a schedule was delivered once and its record is gone
\* while the other schedule's record is still there.
C13_Witness ==
    /\ sj.pc = "none"
    /\ \E s \in 1..schedule_seq :
          /\ Cardinality(Deliveries(outbox, s)) = 1
          /\ s \notin DOMAIN schedules
    /\ DOMAIN schedules # {}

C14_Inv ==
    \A s \in DOMAIN schedules :
       schedules[s].run_time > schedules[s].created_at

C14_Step ==
    \A args \in {a \in ScheduleArgs : Rejected(a, now)}, c \in Chats,
       u \in Users, status \in Statuses, dbOk \in BOOLEAN :
       schedule_command(c, u, args, status, dbOk)
       => /\ UNCHANGED <<schedules, schedule_seq, jobs, sj, outbox, conv,
                         user_data, members, deadlines, completions>>
          /\ reply' = IF ~is_admin(status) THEN <<"only_admins", "schedule">>
                      ELSE IF Len(args) < 3 THEN <<"usage", "schedule">>
                      ELSE IF strptime(args[1], args[2]) = ValueError
                      THEN <<"invalid_format">>
                      ELSE <<"must_be_future">>

\* C14: a /schedule request with fewer than three arguments, with a date
\* and time that do not parse, or with a run time not strictly after the
\* current time is answered with the matching correction and changes
\* nothing: no schedules row, no armed job; so every schedules row has a
\* run time strictly after its time of creation.
C14_RejectedChangesNothing == []C14_Inv /\ [][C14_Step]_vars

\* C14 witness: a request for the current instant has just been turned
\* down, after an earlier one for that instant had been accepted.
C14_Witness ==
    /\ reply = <<"must_be_future">>
    /\ \E s \in DOMAIN schedules :
          schedules[s].run_time = now /\ schedules[s].created_at < now

C15_Step ==
    /\ restart =>
          /\ UNCHANGED <<schedules, schedule_seq, outbox>>
          /\ jobs' = {}
    /\ \A s \in DOMAIN schedules :
          (/\ \A j \in jobs : j.schedule_id # s
           /\ ~(sj.pc = "sent" /\ sj.schedule_id = s))
          => /\ s \in DOMAIN schedules' /\ schedules'[s] = schedules[s]
             /\ \A j \in jobs' : j.schedule_id # s
             /\ Deliveries(outbox', s) = Deliveries(outbox, s)

\* C15: a restart leaves the schedules table and the chats as they are and
\* arms no job; a stored schedule that has no armed job and is not being
\* delivered stays stored, unarmed and undelivered in every later step.
C15_RestartAbandonsSchedules == [][C15_Step]_vars

\* C15 witness: after a restart the run time of a stored, undelivered
\* schedule has come and no job is armed.
C15_Witness ==
    /\ reply = <<"started">>
    /\ jobs = {} /\ sj.pc = "none"
    /\ \E s \in DOMAIN schedules :
          /\ Deliveries(outbox, s) = {}
          /\ now >= schedules[s].run_time

\* C16: the message a job delivers goes to the chat the schedule was
\* requested in and mentions the roster as it is when the job fires: the
\* seed ids and the ids of the members table at that moment, with the
\* names of the table.
C16_MentionsCurrentRoster ==
    [][\A j \in jobs, readOk \in BOOLEAN :
          send_scheduled_message(j, readOk, TRUE)
          => /\ Len(outbox') = Len(outbox) + 1
             /\ LET m == outbox'[Len(outbox')]
                IN  /\ m.chat = accepted[j.schedule_id].chat
                    /\ IdsOf(m.mentions) =
                          SeedIds \cup (IF readOk THEN DOMAIN members ELSE {})
                    /\ \A i \in DOMAIN m.mentions :
                          (readOk /\ m.mentions[i][1] \in DOMAIN members)
                          => m.mentions[i][2] = members[m.mentions[i][1]]
      ]_vars

\* C16 witness: a reminder requested in the second chat was delivered
\* there and mentions the stranger, who was not on the roster when it was
\* requested.
C16_Witness ==
    \E i \in DOMAIN outbox :
       /\ outbox[i].chat = 102
       /\ 9 \in IdsOf(outbox[i].mentions)
       /\ 9 \notin IdsOf(accepted[outbox[i].schedule_id].roster)

\* ---- concurrent completion signals
\* C17 as claimed: when a second signal for a (deadline id, user id) that
\* passed the existence check reaches its INSERT after the first one stored
\* the row, it is acknowledged as already completed, not as an error, and
\* the table keeps exactly one row for the key.
C17_LateInsertIsAlreadyCompleted ==
    [][\A p \in presses, in \in AllCompletionInputs :
          (/\ completions[<<p.deadline_id, p.user>>] > 0
           /\ in.dbOk
           /\ completion_callback_insert(p, in))
          => /\ reply' = <<"already_completed">>
             /\ completions'[<<p.deadline_id, p.user>>] = 1]_vars

\* ---- privilege
\* The commands the claim lists, as the model's callers type them.
AdminCommands ==
    {CommandUpdate(cmd, args) : cmd \in {"mention", "tagall"},
                                args \in MentionArgs}
        \cup {CommandUpdate("status", << >>)}
        \cup {CommandUpdate("deadline", args) : args \in ArgLists}
        \cup {CommandUpdate("schedule", args) : args \in ScheduleArgs}
        \cup {CommandUpdate("cancel", << >>)}

\* The step in which command upd of user u in chat c is handled by the
\* handler registered for it while get_member answers status for u
\* (cancel_deadline does not ask).
Issued(c, u, upd, status) ==
    \/ /\ upd.cmd \in {"mention", "tagall"}
       /\ \E readOk \in BOOLEAN :
             mention_command(c, u, upd.cmd, upd.args, status, readOk)
    \/ /\ upd.cmd = "status"
       /\ \E ord \in created_at_desc :
             status_command(c, u, status, [NoFault EXCEPT !.ord = ord])
    \/ /\ upd.cmd = "deadline"
       /\ \E in \in QueryInputs(upd.args, status) :
             deadline_command(c, u, upd.args, status, in)
    \/ /\ upd.cmd = "schedule"
       /\ \E dbOk \in BOOLEAN : schedule_command(c, u, upd.args, status, dbOk)
    \/ /\ upd.cmd = "cancel"
       /\ cancel_deadline(c, u)

\* C18 as claimed: /mention, /tagall, /status, /deadline, /schedule and
\* /cancel from a caller who is not administrator or creator when the
\* command is handled change no session state and no store row and send
\* no broadcast.
C18_NonAdminChangesNothing ==
    [][\A c \in Chats, u \in Users, upd \in AdminCommands,
          status \in {"member", "lookup_failed"} :
          Issued(c, u, upd, status)
          => /\ UNCHANGED <<conv, user_data, members, deadlines, completions,
                            schedules, jobs, artifacts, outbox>>
             /\ reply'[1] \notin {"mention", "reminder"}]_vars

\* ---- the roster
\* The name MEMBERS gives to a seed id.
SeedName(id) == MEMBERS[CHOOSE k \in DOMAIN MEMBERS : MEMBERS[k][1] = id][2]

\* C19: the roster has exactly one entry for each id of the seed list or
\* the members table; the name of an id of the table is the one stored
\* there, the name of any other id the one of the seed list.
C19_RosterOverlay ==
    LET roster == get_all_member_ids(members, TRUE)
    IN  /\ \A i, j \in DOMAIN roster : i # j => roster[i][1] # roster[j][1]
        /\ IdsOf(roster) = SeedIds \cup DOMAIN members
        /\ \A i \in DOMAIN roster :
              roster[i][2] = IF roster[i][1] \in DOMAIN members
                             THEN members[roster[i][1]]
                             ELSE SeedName(roster[i][1])

\* C19 witness: /mention has just listed a roster in which a seed id goes
\* by the name of the members table and the stranger is the ninth entry.
C19_Witness ==
    /\ reply[1] = "mention"
    /\ Len(reply[3]) = 9
    /\ reply[3][1] = <<1, "Vam">>
    /\ reply[3][9][1] = 9
    /\ reply[3][2] = <<2, "Umesh">>

\* C20 as claimed: whatever message of a user is handled in a group (the
\* members table answering), the user is on the roster afterwards: a row
\* of the members table or an entry of the seed list.
C20_AnyMessageRegisters ==
    [][\A c \in Chats, u \in Users :
          (\/ \E upd \in AdminCommands, status \in Statuses :
                 Issued(c, u, upd, status)
           \/ \E upd \in AllUpdates \cup AdminCommands :
                 \E first_name \in FirstNames(u) :
                    auto_register_member(c, u, upd, first_name, TRUE)
           \/ \E cmd \in {"start", "help"} : simple_command(c, u, cmd)
           \/ \E att \in FileKinds : receive_file_insert(c, u, att, TRUE))
          => u \in SeedIds \cup DOMAIN members']_vars

\* ---- store failures
\* C21 as claimed: a store operation that fails inside /deadline status,
\* /deadline remind, the file receipt or the completion signal is reported
\* to the caller as an error, and the request changes no table.
C21_StoreFailureReported ==
    [][\A c \in Chats, u \in Users, ord \in created_at_desc :
          /\ \A in \in {[NoFault EXCEPT !.ord = ord, !.dbOk = FALSE]} :
                (\/ deadline_command(c, u, <<"status">>, "administrator", in)
                 \/ /\ Len(deadlines) > 0
                    /\ deadline_command(c, u, <<"Remind">>, "administrator", in))
                => /\ reply' = <<"error">>
                   /\ UNCHANGED <<members, deadlines, completions, schedules>>
          /\ \A in \in {[NoFault EXCEPT !.ord = ord, !.latestOk = FALSE]} :
                (/\ Len(deadlines) > 0
                 /\ deadline_command(c, u, <<"Remind">>, "administrator", in))
                => /\ reply' = <<"error">>
                   /\ UNCHANGED <<members, deadlines, completions, schedules>>
          /\ \A att \in FileKinds :
                receive_file_insert(c, u, att, FALSE)
                => /\ reply' = <<"error_posting">>
                   /\ UNCHANGED <<members, deadlines, completions, schedules>>
          /\ \A m \in DOMAIN artifacts :
                completion_callback(m, u, [dbOk |-> FALSE, readOk |-> TRUE,
                                           editOk |-> TRUE])
                => /\ reply' = <<"error_recording">>
                   /\ UNCHANGED <<members, deadlines, completions, schedules>>
      ]_vars

\* ---- the roster when the members table cannot be read
\* The chat and the user from which the admin commands of the
\* specifications come.
Group == 101
Admin == 1

C22_Inv == get_all_member_ids(members, FALSE) = MEMBERS

C22_Step ==
    /\ \A m \in DOMAIN artifacts, u \in Users :
          (/\ completions[<<artifacts[m].deadline_id, u>>] = 0
           /\ completion_callback(m, u, [dbOk |-> TRUE, readOk |-> FALSE,
                                         editOk |-> TRUE]))
          => /\ reply'[1] = "marked" /\ reply'[3] = Len(MEMBERS)
             /\ artifacts'[m].tally[2] = Len(MEMBERS)
    /\ \A ord \in created_at_desc :
          LET in == [NoFault EXCEPT !.ord = ord, !.readOk = FALSE]
          IN  /\ (/\ Len(deadlines) > 0
                  /\ deadline_command(Group, Admin, <<"status">>,
                                      "administrator", in))
                 => /\ reply'[1] = "deadline_status"
                    /\ \A i \in DOMAIN reply'[2] :
                          reply'[2][i][3] = Len(MEMBERS) - reply'[2][i][2]
              /\ (/\ Len(deadlines) > 0
                  /\ deadline_command(Group, Admin, <<"Remind">>,
                                      "administrator", in))
                 => /\ reply'[1] = "reminder"
                    /\ reply'[3] = Pending(MEMBERS, ord[1])
              /\ status_command(Group, Admin, "administrator", in)
                 => reply'[1] = "status" /\ reply'[2] = Len(MEMBERS)
    /\ \A args \in MentionArgs :
          mention_command(Group, Admin, "mention", args, "administrator", FALSE)
          => reply' = <<"mention", Join(args), MEMBERS>>
    /\ \A j \in jobs :
          send_scheduled_message(j, FALSE, TRUE)
          => /\ Len(outbox') = Len(outbox) + 1
             /\ outbox'[Len(outbox')].mentions = MEMBERS

\* C22: when the members table cannot be read the roster is the MEMBERS
\* list as it stands, and the tally total, /deadline status, /deadline
\* remind, /mention, /status and the scheduled delivery answer with it as
\* they would with any roster, none of them with an error.
C22_SeedOnlyOnReadFailure == []C22_Inv /\ [][C22_Step]_vars

\* C22 witness: with the stranger in the members table, /mention has just
\* listed the MEMBERS list alone.
C22_Witness ==
    /\ 9 \in DOMAIN members
    /\ reply[1] = "mention" /\ reply[3] = MEMBERS

\* ---- the roster as a function of the members table
Store == <<members, deadlines, completions, schedules>>

\* The list a /mention reply shows is the list a call in the state
\* reached returns.
C23_Inv ==
    reply[1] = "mention"
    => \E r \in BOOLEAN : reply[3] = get_all_member_ids(members, r)

C23_Step ==
    /\ (reply[1] = "mention" /\ reply' = reply) => members' = members
    /\ \A args \in MentionArgs, r \in BOOLEAN :
          mention_command(Group, Admin, "mention", args, "administrator", r)
          => /\ reply'[3] = get_all_member_ids(members, r)
             /\ Store' = Store
    /\ \A ord \in created_at_desc, r \in BOOLEAN :
          LET in == [NoFault EXCEPT !.ord = ord, !.readOk = r]
          IN  /\ status_command(Group, Admin, "administrator", in)
                 => Store' = Store
              /\ deadline_command(Group, Admin, <<"status">>,
                                  "administrator", in)
                 => Store' = Store
              /\ (/\ Len(deadlines) > 0
                  /\ deadline_command(Group, Admin, <<"Remind">>,
                                      "administrator", in))
                 => /\ reply'[1] = "reminder"
                    /\ reply'[3] = Pending(get_all_member_ids(members, r),
                                           ord[1])
                    /\ Store' = Store

C24_CompletionsWithinRoster ==
    /\ \A d \in 1..Len(deadlines) :
          completion_count(completions, d) <= get_member_count(members, TRUE)
    /\ \A m \in DOMAIN artifacts :
          artifacts[m].tally # NoTally
          => artifacts[m].tally[1] <= artifacts[m].tally[2]
    /\ reply[1] = "deadline_status"
       => \A i \in DOMAIN reply[2] : reply[2][i][3] >= 0

\* ---- a scheduled delivery that fails
\* Schedule s is stored and undelivered with no job armed for it and no
\* callback at work on it.
Abandoned(s) ==
    /\ s \in DOMAIN schedules
    /\ Deliveries(outbox, s) = {}
    /\ \A j \in jobs : j.schedule_id # s
    /\ ~(sj.pc = "sent" /\ sj.schedule_id = s)

C25_Inv ==
    \A s \in 1..schedule_seq :
       s \in DOMAIN schedules \/ Cardinality(Deliveries(outbox, s)) = 1

C25_Step ==
    /\ \A j \in jobs :
          send_scheduled_message(j, TRUE, FALSE)
          => /\ schedules' = schedules /\ j.schedule_id \in DOMAIN schedules'
             /\ outbox' = outbox
             /\ jobs' = jobs \ {j}
             /\ sj' = NoCall
             /\ Deliveries(outbox, j.schedule_id) = {}
                => Abandoned(j.schedule_id)'
    /\ \A s \in 1..schedule_seq : Abandoned(s) => Abandoned(s)'

\* C25: a send that raises ends the callback: the job is gone from the
\* queue and no other is armed, nothing is sent and the row is not
\* deleted; from then on the schedule stays stored and undelivered for
\* good, and a schedule that is no longer stored has been delivered.
C25_FailedDeliveryKeepsRow == []C25_Inv /\ [][C25_Step]_vars

\* C25 witness: after a send that raised, a schedule whose time has come
\* is stored and undelivered with no job left, while another has been
\* delivered and removed.
C25_Witness ==
    \E s, t \in 1..schedule_seq :
       /\ Abandoned(s) /\ now >= schedules[s].run_time
       /\ t \notin DOMAIN schedules /\ Deliveries(outbox, t) # {}

\* ---- /deadline while a file is awaited
\* C26: while the session of user u in chat c is in WAITING_FOR_FILE, a
\* /deadline request of that session, whatever follows the command, is
\* not taken by the workflow: the title, the conversation state, the
\* deadlines table and the posted messages stay as they are and the chat
\* gets no answer; and the session leaves WAITING_FOR_FILE only through
\* /cancel or through the receipt of a document, photo or video.
C26_NoSecondDeadlineRequest ==
    [][\A c \in Chats, u \in Users :
          /\ \A args \in ArgLists :
                (/\ conv[<<c, u>>] = WAITING_FOR_FILE
                 /\ Handled(c, u, CommandUpdate("deadline", args)))
                => /\ user_data'[u] = user_data[u]
                   /\ conv' = conv
                   /\ deadlines' = deadlines
                   /\ artifacts' = artifacts
                   /\ rf' = rf
                   /\ reply' = <<"silent">>
          /\ (/\ conv[<<c, u>>] = WAITING_FOR_FILE
              /\ conv'[<<c, u>>] # WAITING_FOR_FILE)
             => \/ cancel_deadline(c, u)
                \/ \E att \in FileKinds : receive_file_insert(c, u, att, FALSE)
                \/ /\ rf.pc # "none" /\ rf.chat = c /\ rf.user = u
                   /\ rf.att \in FileKinds
      ]_vars

\* C26 witness: with one deadline posted, the session is awaiting the
\* file of `HW 1` and a message that drew no answer has just gone by.
C26_Witness ==
    /\ conv[<<101, 1>>] = WAITING_FOR_FILE
    /\ reply = <<"silent">>
    /\ user_data[1] = "HW 1"
    /\ Len(deadlines) = 1 /\ deadlines[1].title = "Essay"
    /\ rf.pc = "none"

====
